---- MODULE Spec2Model ----
(***************************************************************************)
(* Itera proxy service (backend/server.js): the suggestion cache with its  *)
(* read-time expiry, the per-address rate limiter in front of              *)
(* POST /api/suggestions, and the three proxied operations (suggestions,   *)
(* geocode, route) with their upstream calls.                              *)
(*                                                                         *)
(* Time is Date.now() in milliseconds.  A request is handled in two        *)
(* atomic steps, as the event loop runs it: the synchronous part up to the *)
(* awaited axios.get, and the continuation once the upstream call settles. *)
(***************************************************************************)
EXTENDS Integers, Sequences, FiniteSets, Bags, TLC

\* ---------------------------------------------------------------------
\* Program constants
\* ---------------------------------------------------------------------
SUGGEST_TTL_MS == 60000
RATE_WINDOW_MS == 10000
RATE_MAX == 30
SUGGEST_TIMEOUT_MS == 6000
GEOCODE_TIMEOUT_MS == 6000
ROUTE_TIMEOUT_MS == 8000
MIN_QUERY_LEN == 2

\* ---------------------------------------------------------------------
\* Bounds of the model
\* ---------------------------------------------------------------------
\* the clock stops here
MaxTime == 70000
\* concurrent upstream calls
MaxInFlight == 1
\* requests one address sends per window in Spec
MaxBurst == 2
\* requests one address sends per window in LimiterSpec
MaxHits == 32
\* most features an upstream geocoding response carries
MaxFeatures == 8
\* suggestions calls of one field that have yet to settle
MaxPending == 2
\* suggestions of a list the user picks among
MaxPick == 2

\* ---------------------------------------------------------------------
\* JavaScript values of parsed JSON request bodies.  Numbers are
\* coordinates in units of 1e-4 degree; strings are sequences of characters.
\* ---------------------------------------------------------------------
Undef == [t |-> "undefined", n |-> 0, s |-> <<>>, items |-> <<>>]
Null == [t |-> "null", n |-> 0, s |-> <<>>, items |-> <<>>]
\* what JSON.parse makes of a number such as 1e999
Infinity == [t |-> "Infinity", n |-> 0, s |-> <<>>, items |-> <<>>]
Obj == [t |-> "object", n |-> 0, s |-> <<>>, items |-> <<>>]
Num(v) == [t |-> "number", n |-> v, s |-> <<>>, items |-> <<>>]
Str(chars) == [t |-> "string", n |-> 0, s |-> chars, items |-> <<>>]
Arr(elems) == [t |-> "array", n |-> 0, s |-> <<>>, items |-> elems]

\* JavaScript truthiness, as used by `x || ""`
Truthy(v) ==
  CASE v.t \in {"undefined", "null"} -> FALSE
    [] v.t = "number" -> v.n # 0
    [] v.t = "string" -> v.s # <<>>
    [] OTHER -> TRUE

\* Number.isFinite: no coercion, only finite numbers
NumberIsFinite(v) == v.t = "number"

ArrayIsArray(v) == v.t = "array"

Whitespace == {" ", "\t"}

RECURSIVE TrimStart(_)
TrimStart(s) ==
  IF s # <<>> /\ Head(s) \in Whitespace THEN TrimStart(Tail(s)) ELSE s

RECURSIVE TrimEnd(_)
TrimEnd(s) ==
  IF s # <<>> /\ s[Len(s)] \in Whitespace
  THEN TrimEnd(SubSeq(s, 1, Len(s) - 1))
  ELSE s

\* String.prototype.trim
Trim(s) == TrimEnd(TrimStart(s))

LowerChar(c) ==
  CASE c = "A" -> "a"
    [] c = "B" -> "b"
    [] c = "C" -> "c"
    [] OTHER -> c

\* String.prototype.toLowerCase
ToLowerCase(s) == [i \in 1..Len(s) |-> LowerChar(s[i])]

\* Number.prototype.toFixed(3) of a number given in 1e-4 units: the sign
\* and the magnitude rounded to 1e-3 units ("-4.008" is <<"-", 4008>>)
ToFixed3(n) ==
  IF n < 0 THEN <<"-", (-n + 5) \div 10>> ELSE <<"", (n + 5) \div 10>>


\* ---------------------------------------------------------------------
\* State
\* ---------------------------------------------------------------------
VARIABLES
  now,           \* Date.now()
  suggestCache,  \* the Map: cache key -> [exp, data]
  hits,          \* the limiter's store: client address -> [totalHits, resetTime]
  inflight,      \* bag of requests awaiting their upstream call
  ev,            \* the step just taken: request, upstream result, response
  ui,            \* App: its React state, refs, timers and the map's elements
  reqs,          \* App: its axios.post calls that have not settled
  cev            \* App: the step just taken

serverVars == <<now, suggestCache, hits, inflight, ev>>

clientVars == <<ui, reqs, cev>>

vars == <<now, suggestCache, hits, inflight, ev, ui, reqs, cev>>

\* ---------------------------------------------------------------------
\* CACHE TTL
\* ---------------------------------------------------------------------
MapSet(m, key, v) == [k \in DOMAIN m \cup {key} |-> IF k = key THEN v ELSE m[k]]

MapDelete(m, key) == [k \in DOMAIN m \ {key} |-> m[k]]

\* (mutant) an entry expires as soon as its TTL is reached
cacheExpiredAtTtl(t, exp) == t >= exp

\* the expiry test of cacheGet: Date.now() > v.exp
cacheExpired(t, exp) == t > exp

\* (mutant) an expired entry is reported absent but stays in the Map
cacheGetKeepsExpired(cache, key, t) ==
  IF key \notin DOMAIN cache
  THEN [null |-> TRUE, data |-> <<>>, cache |-> cache]
  ELSE IF cacheExpired(t, cache[key].exp)
       THEN [null |-> TRUE, data |-> <<>>, cache |-> cache]
       ELSE [null |-> FALSE, data |-> cache[key].data, cache |-> cache]

\* (mutant) a lookup sweeps every expired entry out of the Map
cacheGetSweeps(cache, key, t) ==
  LET kept == [k \in {x \in DOMAIN cache : ~cacheExpired(t, cache[x].exp)} |-> cache[k]]
  IN IF key \notin DOMAIN kept
     THEN [null |-> TRUE, data |-> <<>>, cache |-> kept]
     ELSE [null |-> FALSE, data |-> cache[key].data, cache |-> kept]

\* cacheGet(key): null or the stored data; an expired entry is deleted
cacheGet(cache, key, t) ==
  IF key \notin DOMAIN cache
  THEN [null |-> TRUE, data |-> <<>>, cache |-> cache]
  ELSE IF cacheExpired(t, cache[key].exp)
       THEN [null |-> TRUE, data |-> <<>>, cache |-> MapDelete(cache, key)]
       ELSE [null |-> FALSE, data |-> cache[key].data, cache |-> cache]

\* cacheSet(key, data)
cacheSet(cache, key, data, t) ==
  MapSet(cache, key, [exp |-> t + SUGGEST_TTL_MS, data |-> data])

\* ---------------------------------------------------------------------
\* Rate limiter of /api/suggestions (windowMs 10 s, max 30, keyed by
\* client address): a fixed window per address, opened by the first
\* request after the previous window ended; every request is counted.
\* ---------------------------------------------------------------------
NoHits == [totalHits |-> 0, resetTime |-> 0]

limiterIncrement(h, ip, t) ==
  IF h[ip].resetTime <= t
  THEN [h EXCEPT ![ip] = [totalHits |-> 1, resetTime |-> t + RATE_WINDOW_MS]]
  ELSE [h EXCEPT ![ip].totalHits = @ + 1]

\* (mutant) one request too many passes
limiterAdmitsOneMore(totalHits) == totalHits <= RATE_MAX + 1

\* a request passes while the window's count is within max
limiterAdmits(totalHits) == totalHits <= RATE_MAX

\* ---------------------------------------------------------------------
\* Upstream provider (black box): what an axios.get call settles with
\* ---------------------------------------------------------------------
Feature(i) ==
  [id |-> 100 + i, place_name |-> 200 + i,
   center |-> <<-40000 - i, 53000 + i>>, relevance |-> 400 + i]

FeatureList(n) == [i \in 1..n |-> Feature(i)]

UpRoute(i) ==
  [distance |-> 12345 * i, duration |-> 900 * i,
   geometry |-> [type |-> "LineString", coordinates |-> 500 + i],
   weight |-> 600 + i]

RouteList(n) == [i \in 1..n |-> UpRoute(i)]

\* axios rejects: timeout (code ECONNABORTED) or a network error
UpThrows == {[kind |-> k, status |-> 0, has |-> FALSE, list |-> <<>>] :
               k \in {"timeout", "error"}}

\* validateStatus: () => true, so every HTTP status resolves
UpHttpErrors == {[kind |-> "response", status |-> st, has |-> FALSE, list |-> <<>>] :
                   st \in {400, 500}}

UpGeocoding ==
  UpThrows \cup UpHttpErrors
  \cup {[kind |-> "response", status |-> 200, has |-> FALSE, list |-> <<>>]}
  \cup {[kind |-> "response", status |-> 200, has |-> TRUE, list |-> FeatureList(n)] :
          n \in {0, MaxFeatures}}

UpDirections ==
  UpThrows \cup UpHttpErrors
  \cup {[kind |-> "response", status |-> 200, has |-> FALSE, list |-> <<>>]}
  \cup {[kind |-> "response", status |-> 200, has |-> TRUE, list |-> RouteList(n)] :
          n \in {0, 1, 2}}

\* ---------------------------------------------------------------------
\* Responses
\* ---------------------------------------------------------------------
ErrorBody == <<"error">>

NoKey == <<<<>>, <<"", 0>>, <<"", 0>>>>

\* ---------------------------------------------------------------------
\* POST /api/suggestions
\* ---------------------------------------------------------------------
SUGGEST_LIMIT == 7

\* [-4.0083, 5.3097]
defaultProximity == Arr(<<Num(-40083), Num(53097)>>)

\* query = (query || "")
queryOrEmpty(query) == IF Truthy(query) THEN query ELSE Str(<<>>)

\* (mutant) one character is enough
queryTooShortEmptyOnly(text) == Len(text) < MIN_QUERY_LEN - 1

\* query.length < 2
queryTooShort(text) == Len(text) < MIN_QUERY_LEN

validPair(p) ==
  /\ ArrayIsArray(p)
  /\ Len(p.items) = 2
  /\ NumberIsFinite(p.items[1])
  /\ NumberIsFinite(p.items[2])

effectiveProximity(proximity) ==
  IF validPair(proximity) THEN proximity ELSE defaultProximity

\* (mutant) the key keeps the query's case
cacheKeyOfCaseSensitive(text, prox) ==
  <<text, ToFixed3(prox.items[1].n), ToFixed3(prox.items[2].n)>>

\* `${query.toLowerCase()}|${prox[0].toFixed(3)},${prox[1].toFixed(3)}`
cacheKeyOf(text, prox) ==
  <<ToLowerCase(text), ToFixed3(prox.items[1].n), ToFixed3(prox.items[2].n)>>

\* features.map(f => ({ id, place_name, center }))
reduceFeatures(features) ==
  [i \in 1..Len(features) |->
     [id |-> features[i].id, place_name |-> features[i].place_name,
      center |-> features[i].center]]

NoFound == [present |-> FALSE, exp |-> 0, data |-> <<>>]

\* what suggestCache.get(key) sees
Found(cache, key) ==
  IF key \in DOMAIN cache
  THEN [present |-> TRUE, exp |-> cache[key].exp, data |-> cache[key].data]
  ELSE NoFound

NoUpReq == [api |-> "none", text |-> <<>>, coords |-> <<>>]

\* the handler up to `await axios.get`
suggestionsHandler(body, cache, t) ==
  LET base == [status |-> 0, res |-> <<>>, cache |-> cache, forward |-> FALSE,
               key |-> NoKey, found |-> NoFound, lookups |-> 0, upreq |-> NoUpReq]
      thrown == [base EXCEPT !.status = 500, !.res = ErrorBody]
  IN
  IF ~body.present THEN thrown            \* destructuring of undefined throws
  ELSE
  LET q == queryOrEmpty(body.query) IN
  IF q.t # "string" THEN thrown           \* .trim is not a function
  ELSE
  LET text == Trim(q.s) IN
  IF queryTooShort(text) THEN [base EXCEPT !.status = 200, !.res = <<>>]
  ELSE
  LET prox == effectiveProximity(body.proximity)
      key == cacheKeyOf(text, prox)
      cached == cacheGet(cache, key, t)
      looked == [base EXCEPT !.key = key, !.found = Found(cache, key),
                             !.lookups = 1, !.cache = cached.cache]
  IN
  IF ~cached.null                         \* an array is truthy, also when empty
  THEN [looked EXCEPT !.status = 200, !.res = cached.data]
  ELSE [looked EXCEPT !.forward = TRUE,
                      !.upreq = [api |-> "geocoding", text |-> text,
                                 coords |-> <<prox.items[1].n, prox.items[2].n>>]]

\* (mutant) an upstream error status is cached as an empty result
suggestionsSettleCachesErrors(key, up, cache, t) ==
  IF up.kind # "response"
  THEN [status |-> 500, res |-> ErrorBody, cache |-> cache, retry |-> FALSE]
  ELSE IF up.status >= 400
  THEN [status |-> 502, res |-> ErrorBody,
        cache |-> cacheSet(cache, key, <<>>, t), retry |-> FALSE]
  ELSE
  LET features == IF up.has THEN up.list ELSE <<>>
      suggestions == reduceFeatures(features)
  IN [status |-> 200, res |-> suggestions,
      cache |-> cacheSet(cache, key, suggestions, t), retry |-> FALSE]

\* (mutant) a completion does not replace an entry stored meanwhile
suggestionsSettleKeepsFirst(key, up, cache, t) ==
  IF up.kind # "response"
  THEN [status |-> 500, res |-> ErrorBody, cache |-> cache, retry |-> FALSE]
  ELSE IF up.status >= 400
  THEN [status |-> 502, res |-> ErrorBody, cache |-> cache, retry |-> FALSE]
  ELSE
  LET features == IF up.has THEN up.list ELSE <<>>
      suggestions == reduceFeatures(features)
  IN [status |-> 200, res |-> suggestions,
      cache |-> IF key \in DOMAIN cache THEN cache
                ELSE cacheSet(cache, key, suggestions, t),
      retry |-> FALSE]

\* the handler after `await axios.get`
suggestionsSettle(key, up, cache, t) ==
  IF up.kind # "response"
  THEN [status |-> 500, res |-> ErrorBody, cache |-> cache, retry |-> FALSE]
  ELSE IF up.status >= 400
  THEN [status |-> 502, res |-> ErrorBody, cache |-> cache, retry |-> FALSE]
  ELSE
  LET features == IF up.has THEN up.list ELSE <<>>
      suggestions == reduceFeatures(features)
  IN [status |-> 200, res |-> suggestions,
      cache |-> cacheSet(cache, key, suggestions, t), retry |-> FALSE]


\* ---------------------------------------------------------------------
\* POST /api/geocode
\* ---------------------------------------------------------------------
\* (mutant) the location is not trimmed
geocodeHandlerNoTrim(body) ==
  LET base == [status |-> 0, res |-> <<>>, forward |-> FALSE, upreq |-> NoUpReq]
      l == IF body.present /\ Truthy(body.location) THEN body.location ELSE Str(<<>>)
  IN
  IF l.t # "string" THEN [base EXCEPT !.status = 500, !.res = ErrorBody]
  ELSE
  IF l.s = <<>> THEN [base EXCEPT !.status = 400, !.res = ErrorBody]
  ELSE [base EXCEPT !.forward = TRUE,
                    !.upreq = [api |-> "geocoding", text |-> l.s, coords |-> <<>>]]

\* the handler up to `await axios.get`
geocodeHandler(body) ==
  LET base == [status |-> 0, res |-> <<>>, forward |-> FALSE, upreq |-> NoUpReq]
      \* req.body?.location || ""
      l == IF body.present /\ Truthy(body.location) THEN body.location ELSE Str(<<>>)
  IN
  IF l.t # "string" THEN [base EXCEPT !.status = 500, !.res = ErrorBody]
  ELSE
  LET location == Trim(l.s) IN
  IF location = <<>> THEN [base EXCEPT !.status = 400, !.res = ErrorBody]
  ELSE [base EXCEPT !.forward = TRUE,
                    !.upreq = [api |-> "geocoding", text |-> location, coords |-> <<>>]]

\* (mutant) the last feature's center is returned
geocodeSettleLastFeature(up) ==
  IF up.kind # "response" THEN [status |-> 500, res |-> ErrorBody, retry |-> FALSE]
  ELSE IF up.status >= 400 THEN [status |-> 502, res |-> ErrorBody, retry |-> FALSE]
  ELSE
  LET features == IF up.has THEN up.list ELSE <<>> IN
  IF Len(features) = 0 THEN [status |-> 404, res |-> ErrorBody, retry |-> FALSE]
  ELSE [status |-> 200, res |-> [coordinates |-> features[Len(features)].center],
        retry |-> FALSE]

\* (mutant) an upstream error status is tried again
geocodeSettleRetries(up) ==
  IF up.kind # "response" THEN [status |-> 500, res |-> ErrorBody, retry |-> FALSE]
  ELSE IF up.status >= 400 THEN [status |-> 502, res |-> ErrorBody, retry |-> TRUE]
  ELSE
  LET features == IF up.has THEN up.list ELSE <<>> IN
  IF Len(features) = 0 THEN [status |-> 404, res |-> ErrorBody, retry |-> FALSE]
  ELSE [status |-> 200, res |-> [coordinates |-> features[1].center], retry |-> FALSE]

\* the handler after `await axios.get`
geocodeSettle(up) ==
  IF up.kind # "response" THEN [status |-> 500, res |-> ErrorBody, retry |-> FALSE]
  ELSE IF up.status >= 400 THEN [status |-> 502, res |-> ErrorBody, retry |-> FALSE]
  ELSE
  LET features == IF up.has THEN up.list ELSE <<>> IN
  IF Len(features) = 0 THEN [status |-> 404, res |-> ErrorBody, retry |-> FALSE]
  ELSE [status |-> 200, res |-> [coordinates |-> features[1].center], retry |-> FALSE]

\* ---------------------------------------------------------------------
\* POST /api/route
\* ---------------------------------------------------------------------
\* (mutant) the arity is not checked
validPointAnyLength(p) ==
  /\ ArrayIsArray(p)
  /\ Len(p.items) >= 2
  /\ NumberIsFinite(p.items[1])
  /\ NumberIsFinite(p.items[2])

validPoint(p) ==
  /\ ArrayIsArray(p)
  /\ Len(p.items) = 2
  /\ NumberIsFinite(p.items[1])
  /\ NumberIsFinite(p.items[2])

\* the handler up to `await axios.get`
routeHandler(body) ==
  LET base == [status |-> 0, res |-> <<>>, forward |-> FALSE, upreq |-> NoUpReq]
      \* const { start, end } = req.body || {}
      start == IF body.present THEN body.start ELSE Undef
      end == IF body.present THEN body.end ELSE Undef
  IN
  IF ~validPoint(start) \/ ~validPoint(end)
  THEN [base EXCEPT !.status = 400, !.res = ErrorBody]
  ELSE [base EXCEPT !.forward = TRUE,
                    !.upreq = [api |-> "directions", text |-> <<>>,
                               coords |-> <<start.items[1].n, start.items[2].n,
                                            end.items[1].n, end.items[2].n>>]]

\* (mutant) the last route is taken
pickLastRoute(routes) == routes[Len(routes)]

\* const route = data.routes[0]
pickRoute(routes) == routes[1]

\* (mutant) no response is sent when upstream finds no route
routeSettleSilent(up) ==
  IF up.kind # "response" THEN [status |-> 500, res |-> ErrorBody, retry |-> FALSE]
  ELSE IF up.status >= 400 THEN [status |-> 502, res |-> ErrorBody, retry |-> FALSE]
  ELSE IF ~up.has \/ Len(up.list) = 0
  THEN [status |-> 0, res |-> <<>>, retry |-> FALSE]
  ELSE
  LET route == pickRoute(up.list)
      feature == [type |-> "Feature",
                  properties |-> [distance |-> route.distance,
                                  duration |-> route.duration],
                  geometry |-> route.geometry]
  IN [status |-> 200,
      res |-> [distance |-> route.distance, duration |-> route.duration,
               feature |-> feature],
      retry |-> FALSE]

\* the handler after `await axios.get`
routeSettle(up) ==
  IF up.kind # "response" THEN [status |-> 500, res |-> ErrorBody, retry |-> FALSE]
  ELSE IF up.status >= 400 THEN [status |-> 502, res |-> ErrorBody, retry |-> FALSE]
  ELSE IF ~up.has \/ Len(up.list) = 0
  THEN [status |-> 404, res |-> ErrorBody, retry |-> FALSE]
  ELSE
  LET route == pickRoute(up.list)
      feature == [type |-> "Feature",
                  properties |-> [distance |-> route.distance,
                                  duration |-> route.duration],
                  geometry |-> route.geometry]
  IN [status |-> 200,
      res |-> [distance |-> route.distance, duration |-> route.duration,
               feature |-> feature],
      retry |-> FALSE]

\* ---------------------------------------------------------------------
\* Requests the clients send
\* ---------------------------------------------------------------------
Ips == {"10.0.0.1", "10.0.0.2"}

NoBody == [present |-> FALSE]

ShortQueries ==
  {Undef, Null, Num(0), Str(<<>>), Str(<<"a">>), Str(<<" ", "a", " ">>),
   Str(<<" ", " ", " ">>)}

LongQueries == {Str(<<"a", "b">>), Str(<<" ", "A", "b", " ">>)}

BadQueries == {Num(42), Obj}

NearDefault == Arr(<<Num(-40081), Num(53102)>>)

Proximities ==
  {Undef, NearDefault, Arr(<<Infinity, Num(53500)>>),
   Arr(<<Num(-39800), Num(53500), Num(0)>>), Str(<<"a">>)}

SuggestBodies ==
  {NoBody}
  \cup {[present |-> TRUE, query |-> q, proximity |-> p] :
          q \in LongQueries, p \in Proximities}
  \cup {[present |-> TRUE, query |-> q, proximity |-> p] :
          q \in ShortQueries \cup BadQueries, p \in {Undef}}

GeocodeBodies ==
  {NoBody}
  \cup {[present |-> TRUE, location |-> l] :
          l \in {Undef, Null, Str(<<>>), Str(<<" ", " ">>), Str(<<" ", "a", "b">>),
                 Num(0), Num(42), Arr(<<>>), Obj}}

PointA == Arr(<<Num(-40200), Num(53200)>>)

PointB == Arr(<<Num(-39800), Num(53500)>>)

BadPoints ==
  {Undef, Null, Obj, Str(<<"a">>), Arr(<<>>), Arr(<<Num(-40200)>>),
   Arr(<<Num(-40200), Num(53200), Num(0)>>), Arr(<<Infinity, Num(53200)>>),
   Arr(<<Num(-40200), Obj>>), Arr(<<Str(<<"a">>), Num(53200)>>),
   Arr(<<Num(-40200), Null>>)}

RouteBodies ==
  {NoBody, [present |-> TRUE, start |-> PointA, end |-> PointB]}
  \cup {[present |-> TRUE, start |-> p, end |-> PointB] : p \in BadPoints}
  \cup {[present |-> TRUE, start |-> PointA, end |-> p] : p \in BadPoints}
  \cup {[present |-> TRUE, start |-> Undef, end |-> Undef]}

\* no upstream result
NoUp == [kind |-> "none", status |-> 0, has |-> FALSE, list |-> <<>>]

\* ---------------------------------------------------------------------
\* App (client): state
\* ---------------------------------------------------------------------
CLIENT_MIN_QUERY_LEN == 2

\* [-4.0083, 5.3097]
DEFAULT_PROXIMITY == Arr(<<Num(-40083), Num(53097)>>)

Fields == {"start", "end"}

\* useState(null) holders: coordinates, distance, routeFeature
NoCoords == [set |-> FALSE, at |-> <<0, 0>>]

NoDistance == [set |-> FALSE, v |-> 0]

NoRouteFeature == [set |-> FALSE, geometry |-> Undef]

\* the timeout of useDebounce
NoTimer == [on |-> FALSE, value |-> <<>>]

InitUi ==
  [address |-> [f \in Fields |-> <<>>],
   debounced |-> [f \in Fields |-> <<>>],
   timer |-> [f \in Fields |-> NoTimer],
   coords |-> [f \in Fields |-> NoCoords],
   focused |-> [f \in Fields |-> FALSE],
   suggestions |-> [f \in Fields |-> <<>>],
   controller |-> [f \in Fields |-> 0],      \* startReqController / endReqController
   cleanup |-> [f \in Fields |-> FALSE],     \* the suggestions effect returned a cleanup
   isLoading |-> FALSE,
   distance |-> NoDistance,
   routeFeature |-> NoRouteFeature,
   markers |-> <<>>,                         \* markers on the map
   layer |-> NoRouteFeature]                 \* data of the map's "route" source

InitReqs == [suggestions |-> {}, route |-> {}]

\* the text a suggestion's place_name stands for
Digits == <<"1", "2", "3", "4", "5", "6", "7", "8", "9">>

PlaceText(place_name) == <<"P", Digits[place_name - 200]>>

\* a coordinate holder as JSON on the wire
JsPoint(c) == IF c.set THEN Arr(<<Num(c.at[1]), Num(c.at[2])>>) ELSE Null

\* obj[k] of a response body, undefined when the key is absent
Get(obj, k) == IF k \in DOMAIN obj THEN obj[k] ELSE Undef

\* ---------------------------------------------------------------------
\* App: the proxy's answer to one axios.post
\* ---------------------------------------------------------------------
\* axios.post rejects without a response: timeout or network error
ClientThrows == {[kind |-> "timeout", up |-> NoUp]}

SuggestAnswers ==
  ClientThrows
  \cup {[kind |-> "limited", up |-> NoUp]}
  \cup {[kind |-> "proxy", up |-> up] : up \in UpGeocoding}

RouteAnswers ==
  ClientThrows \cup {[kind |-> "proxy", up |-> up] : up \in UpDirections}

\* POST /api/suggestions {query: q, proximity: DEFAULT_PROXIMITY}
proxySuggestions(q, ans) ==
  IF ans.kind = "timeout" THEN [status |-> 0, data |-> <<>>]
  ELSE IF ans.kind = "limited" THEN [status |-> 429, data |-> ErrorBody]
  ELSE
  LET body == [present |-> TRUE, query |-> Str(q), proximity |-> DEFAULT_PROXIMITY]
      h == suggestionsHandler(body, <<>>, 0)
  IN IF h.forward
     THEN LET o == suggestionsSettle(h.key, ans.up, h.cache, 0)
          IN [status |-> o.status, data |-> o.res]
     ELSE [status |-> h.status, data |-> h.res]

\* POST /api/route {start, end}
proxyRoute(body, ans) ==
  IF ans.kind = "timeout" THEN [status |-> 0, data |-> <<>>]
  ELSE
  LET h == routeHandler(body)
  IN IF h.forward
     THEN LET o == routeSettle(ans.up) IN [status |-> o.status, data |-> o.res]
     ELSE [status |-> h.status, data |-> h.res]

\* axios resolves on a 2xx status and rejects otherwise
axiosResolves(response) == response.status \in 200..299

\* ---------------------------------------------------------------------
\* App: the step just taken
\* ---------------------------------------------------------------------
NoAnswer == [kind |-> "none", up |-> NoUp]

\* a suggestions call: its field, its AbortController, its query
NoCall == [field |-> "", id |-> 0, q |-> <<>>, aborted |-> FALSE, stale |-> FALSE]

\* what Calculate can disturb: the map's elements and the result shown
Shown(u) ==
  [markers |-> u.markers, layer |-> u.layer, routeFeature |-> u.routeFeature,
   distance |-> u.distance]

NoCev ==
  [kind |-> "none", field |-> "", call |-> NoCall, answer |-> NoAnswer,
   status |-> 0, toast |-> "none", changed |-> FALSE, issued |-> 0,
   prior |-> Shown(InitUi), quiet |-> TRUE, threw |-> FALSE,
   coords |-> InitUi.coords]

\* ---------------------------------------------------------------------
\* Steps
\* ---------------------------------------------------------------------

NoEv ==
  [op |-> "none", phase |-> "none", ip |-> "", body |-> NoBody, up |-> NoUp,
   upreq |-> NoUpReq, status |-> 0, res |-> <<>>, calls |-> 0, key |-> NoKey,
   found |-> NoFound, lookups |-> 0, changed |-> FALSE, evicted |-> FALSE]

Pending(op, key, evicted) ==
  [op |-> op, key |-> key, sentAt |-> now, evicted |-> evicted, calls |-> 1]

\* fewer than n upstream calls are in flight
Room(n) == BagCardinality(inflight) < n

Init ==
  /\ now = 0
  /\ suggestCache = <<>>
  /\ hits = [ip \in Ips |-> NoHits]
  /\ inflight = EmptyBag
  /\ ev = NoEv
  /\ ui = InitUi
  /\ reqs = InitReqs
  /\ cev = NoCev

\* (mutant) the limiter sits behind the cache: only requests that go
\* upstream are counted
SuggestionsCacheFirst(ip, body) ==
  LET h == suggestionsHandler(body, suggestCache, now)
      counted == IF h.forward THEN limiterIncrement(hits, ip, now) ELSE hits
      evicted == h.found.present /\ h.key \notin DOMAIN h.cache
      e == [NoEv EXCEPT !.op = "suggestions", !.phase = "arrive", !.ip = ip,
                        !.body = body]
  IN
  /\ hits' = counted
  /\ IF h.forward /\ ~limiterAdmits(counted[ip].totalHits)
     THEN /\ ev' = [e EXCEPT !.status = 429, !.res = ErrorBody]
          /\ UNCHANGED <<now, suggestCache, inflight>>
     ELSE /\ suggestCache' = h.cache
          /\ inflight' =
               IF h.forward
               THEN inflight (+) SetToBag({Pending("suggestions", h.key, evicted)})
               ELSE inflight
          /\ ev' = [e EXCEPT !.status = h.status, !.res = h.res, !.key = h.key,
                             !.found = h.found, !.lookups = h.lookups,
                             !.upreq = h.upreq,
                             !.calls = IF h.forward THEN 1 ELSE 0,
                             !.evicted = evicted,
                             !.changed = h.cache # suggestCache]
          /\ UNCHANGED now

\* app.use("/api/suggestions", suggestionsLimiter), then the handler
Suggestions(ip, body) ==
  LET counted == limiterIncrement(hits, ip, now)
      h == suggestionsHandler(body, suggestCache, now)
      evicted == h.found.present /\ h.key \notin DOMAIN h.cache
      e == [NoEv EXCEPT !.op = "suggestions", !.phase = "arrive", !.ip = ip,
                        !.body = body]
  IN
  /\ hits' = counted
  /\ IF ~limiterAdmits(counted[ip].totalHits)
     THEN /\ ev' = [e EXCEPT !.status = 429, !.res = ErrorBody]
          /\ UNCHANGED <<now, suggestCache, inflight>>
     ELSE /\ suggestCache' = h.cache
          /\ inflight' =
               IF h.forward
               THEN inflight (+) SetToBag({Pending("suggestions", h.key, evicted)})
               ELSE inflight
          /\ ev' = [e EXCEPT !.status = h.status, !.res = h.res, !.key = h.key,
                             !.found = h.found, !.lookups = h.lookups,
                             !.upreq = h.upreq,
                             !.calls = IF h.forward THEN 1 ELSE 0,
                             !.evicted = evicted,
                             !.changed = h.cache # suggestCache]
          /\ UNCHANGED now

\* (mutant) the limiter is mounted on /api/geocode too
GeocodeLimited(body) ==
  LET ip == CHOOSE i \in Ips : TRUE
      counted == limiterIncrement(hits, ip, now)
      h == geocodeHandler(body)
      e == [NoEv EXCEPT !.op = "geocode", !.phase = "arrive", !.body = body]
  IN
  /\ hits' = counted
  /\ IF ~limiterAdmits(counted[ip].totalHits)
     THEN /\ ev' = [e EXCEPT !.status = 429, !.res = ErrorBody]
          /\ UNCHANGED inflight
     ELSE /\ inflight' =
               IF h.forward THEN inflight (+) SetToBag({Pending("geocode", NoKey, FALSE)})
               ELSE inflight
          /\ ev' = [e EXCEPT !.status = h.status, !.res = h.res, !.upreq = h.upreq,
                             !.calls = IF h.forward THEN 1 ELSE 0]
  /\ UNCHANGED <<now, suggestCache>>

Geocode(body) ==
  LET h == geocodeHandler(body) IN
  /\ inflight' =
       IF h.forward THEN inflight (+) SetToBag({Pending("geocode", NoKey, FALSE)})
       ELSE inflight
  /\ ev' = [NoEv EXCEPT !.op = "geocode", !.phase = "arrive", !.body = body, !.status = h.status, !.res = h.res,
                        !.upreq = h.upreq, !.calls = IF h.forward THEN 1 ELSE 0]
  /\ UNCHANGED <<now, suggestCache, hits>>

Route(body) ==
  LET h == routeHandler(body) IN
  /\ inflight' =
       IF h.forward THEN inflight (+) SetToBag({Pending("route", NoKey, FALSE)})
       ELSE inflight
  /\ ev' = [NoEv EXCEPT !.op = "route", !.phase = "arrive", !.body = body, !.status = h.status, !.res = h.res,
                        !.upreq = h.upreq, !.calls = IF h.forward THEN 1 ELSE 0]
  /\ UNCHANGED <<now, suggestCache, hits>>

\* GET /
Health ==
  /\ ev' = [NoEv EXCEPT !.op = "health", !.phase = "arrive", !.status = 200, !.res = <<"ok">>]
  /\ UNCHANGED <<now, suggestCache, hits, inflight>>


\* axios timeout of the operation's upstream call
timeoutOf(op) ==
  CASE op = "suggestions" -> SUGGEST_TIMEOUT_MS
    [] op = "geocode" -> GEOCODE_TIMEOUT_MS
    [] OTHER -> ROUTE_TIMEOUT_MS

Overdue(r) == now - r.sentAt >= timeoutOf(r.op)

\* a call settles with a timeout once its deadline has passed, and with
\* a response or a network error before that
InTime(r, up) == (up.kind = "timeout") <=> Overdue(r)

\* the request goes on after its upstream call settled: it answers, or
\* (were the handler to retry) calls upstream again
Continue(r, o) ==
  IF o.retry
  THEN (inflight (-) SetToBag({r}))
         (+) SetToBag({[r EXCEPT !.sentAt = now, !.calls = @ + 1]})
  ELSE inflight (-) SetToBag({r})

SettleEv(r, up, o) ==
  [NoEv EXCEPT !.op = r.op, !.phase = IF o.retry THEN "retry" ELSE "settle",
               !.up = up, !.status = IF o.retry THEN 0 ELSE o.status,
               !.res = IF o.retry THEN <<>> ELSE o.res,
               !.calls = IF o.retry THEN r.calls + 1 ELSE r.calls,
               !.key = r.key, !.evicted = r.evicted]

SettleSuggestions(r, up) ==
  /\ r \in BagToSet(inflight) /\ r.op = "suggestions"
  /\ InTime(r, up)
  /\ LET o == suggestionsSettle(r.key, up, suggestCache, now) IN
       /\ suggestCache' = o.cache
       /\ inflight' = Continue(r, o)
       /\ ev' = [SettleEv(r, up, o) EXCEPT !.changed = o.cache # suggestCache]
  /\ UNCHANGED <<now, hits>>

SettleGeocode(r, up) ==
  /\ r \in BagToSet(inflight) /\ r.op = "geocode"
  /\ InTime(r, up)
  /\ LET o == geocodeSettle(up) IN
       /\ inflight' = Continue(r, o)
       /\ ev' = SettleEv(r, up, o)
  /\ UNCHANGED <<now, suggestCache, hits>>

SettleRoute(r, up) ==
  /\ r \in BagToSet(inflight) /\ r.op = "route"
  /\ InTime(r, up)
  /\ LET o == routeSettle(up) IN
       /\ inflight' = Continue(r, o)
       /\ ev' = SettleEv(r, up, o)
  /\ UNCHANGED <<now, suggestCache, hits>>

\* the limiter's store forgets windows that have ended
limiterCleanup(h, t) ==
  [ip \in DOMAIN h |-> IF h[ip].resetTime <= t THEN NoHits ELSE h[ip]]

\* time passes; timers of overdue calls fire before it passes further
Advance(d) ==
  /\ now + d <= MaxTime
  /\ \A r \in BagToSet(inflight) : ~Overdue(r)
  /\ inflight # EmptyBag => d < SUGGEST_TIMEOUT_MS   \* no tick skips a deadline
  /\ now' = now + d
  /\ hits' = limiterCleanup(hits, now + d)
  /\ ev' = NoEv
  /\ UNCHANGED <<suggestCache, inflight>>

\* the client address has sent fewer than n requests in its open window
Below(ip, n) == hits[ip].resetTime <= now \/ hits[ip].totalHits < n

\* ---------------------------------------------------------------------
\* The proxy serving one client address
\* ---------------------------------------------------------------------
Client == "10.0.0.1"

\* the clock's resolution, and the longest the model lets it jump
TimeSteps == {RATE_WINDOW_MS \div 2, SUGGEST_TTL_MS}

\* the step just taken has been observed; the next one can be taken
Observe ==
  /\ ev # NoEv
  /\ ev' = NoEv
  /\ UNCHANGED <<now, suggestCache, hits, inflight>>

Next ==
  \/ \E body \in SuggestBodies :
       /\ ev = NoEv /\ Below(Client, MaxBurst) /\ Room(MaxInFlight)
       /\ Suggestions(Client, body)
       /\ UNCHANGED clientVars
  \/ \E body \in GeocodeBodies :
       ev = NoEv /\ Room(MaxInFlight) /\ Geocode(body) /\ UNCHANGED clientVars
  \/ \E body \in RouteBodies :
       ev = NoEv /\ Room(MaxInFlight) /\ Route(body) /\ UNCHANGED clientVars
  \/ ev = NoEv /\ Health /\ UNCHANGED clientVars
  \/ \E r \in BagToSet(inflight), up \in UpGeocoding :
       ev = NoEv /\ SettleSuggestions(r, up) /\ UNCHANGED clientVars
  \/ \E r \in BagToSet(inflight), up \in UpGeocoding :
       ev = NoEv /\ SettleGeocode(r, up) /\ UNCHANGED clientVars
  \/ \E r \in BagToSet(inflight), up \in UpDirections :
       ev = NoEv /\ SettleRoute(r, up) /\ UNCHANGED clientVars
  \/ \E d \in TimeSteps : ev = NoEv /\ Advance(d) /\ UNCHANGED clientVars
  \/ Observe /\ UNCHANGED clientVars

Spec == Init /\ [][Next]_vars


\* ---------------------------------------------------------------------
\* The limiter under a burst of requests from two client addresses
\* ---------------------------------------------------------------------
BurstBodies == {[present |-> TRUE, query |-> Str(<<"a">>), proximity |-> Undef]}

LimiterNext ==
  \/ \E ip \in Ips, body \in BurstBodies :
       ev = NoEv /\ Below(ip, MaxHits) /\ Suggestions(ip, body) /\ UNCHANGED clientVars
  \/ ev = NoEv /\ Advance(RATE_WINDOW_MS \div 2) /\ UNCHANGED clientVars
  \/ Observe /\ UNCHANGED clientVars

LimiterSpec == Init /\ [][LimiterNext]_vars

\* ---------------------------------------------------------------------
\* App: effects
\* ---------------------------------------------------------------------
\* (mutant) abort() cancels nothing
abortNothing(calls, f, id) == calls

\* startReqController.current?.abort()
abortController(calls, f, id) ==
  {IF c.field = f /\ c.id = id THEN [c EXCEPT !.aborted = TRUE] ELSE c : c \in calls}

\* new AbortController(): one no pending call of the field holds
newController(calls, f) ==
  CHOOSE n \in 1..(Cardinality(calls) + 1) :
    /\ \A c \in calls : c.field = f => c.id # n
    /\ \A m \in 1..(n - 1) : \E c \in calls : c.field = f /\ c.id = m

\* (mutant) coordinates do not suppress the fetch
suppressedNever(u, f) == FALSE

\* if (startCoords) { setStartSuggestions([]); return; }
suppressed(u, f) == u.coords[f].set

\* the suggestions effect of field f: the previous run's cleanup, then
\* the body
suggestionsEffect(u, calls, f) ==
  LET q == Trim(u.debounced[f])
      cleaned == IF u.cleanup[f] THEN abortController(calls, f, u.controller[f])
                 ELSE calls
  IN
  IF suppressed(u, f) \/ Len(q) < CLIENT_MIN_QUERY_LEN \/ ~u.focused[f]
  THEN [ui |-> [u EXCEPT !.suggestions[f] = <<>>, !.cleanup[f] = FALSE],
        calls |-> cleaned]
  ELSE
  LET aborted == abortController(cleaned, f, u.controller[f])
      id == newController(aborted, f)
  IN [ui |-> [u EXCEPT !.controller[f] = id, !.cleanup[f] = TRUE],
      calls |-> aborted \cup {[NoCall EXCEPT !.field = f, !.id = id, !.q = q]}]

\* [debouncedStartAddress, startCoords, isStartFocused]
depsChanged(old, u, f) ==
  \/ old.debounced[f] # u.debounced[f]
  \/ old.coords[f] # u.coords[f]
  \/ old.focused[f] # u.focused[f]

\* the effect of useDebounce: clearTimeout, then setTimeout for the new value
debounceEffect(old, u) ==
  [u EXCEPT !.timer = [f \in Fields |->
                         IF old.address[f] # u.address[f]
                         THEN [on |-> TRUE, value |-> u.address[f]]
                         ELSE u.timer[f]]]

markersOf(u) ==
  (IF u.coords["start"].set THEN <<u.coords["start"].at>> ELSE <<>>)
  \o (IF u.coords["end"].set THEN <<u.coords["end"].at>> ELSE <<>>)

\* the redraw effect, the map's style being loaded
redrawMapElements(old, u) ==
  IF old.coords = u.coords /\ old.routeFeature = u.routeFeature THEN u
  ELSE [u EXCEPT !.markers = markersOf(u),
                 !.layer = IF u.routeFeature.set THEN u.routeFeature ELSE u.layer]

\* the render after a handler has set state, with the effects whose
\* dependencies changed; React runs them before it takes any later update
render(old, u, calls) ==
  LET drawn == redrawMapElements(old, debounceEffect(old, u))
      s == IF depsChanged(old, u, "start")
           THEN suggestionsEffect(drawn, calls, "start")
           ELSE [ui |-> drawn, calls |-> calls]
  IN IF depsChanged(old, u, "end")
     THEN suggestionsEffect(s.ui, s.calls, "end")
     ELSE s

\* ---------------------------------------------------------------------
\* App: handlers
\* ---------------------------------------------------------------------
\* (mutant) a cancellation is handled as a failure
isCanceledNever(kind) == FALSE

\* err?.name === "CanceledError" || err?.code === "ERR_CANCELED"
isCanceled(kind) == kind = "canceled"

\* fetchSuggestions after `await axios.post`
fetchSuggestions(u, c, response) ==
  LET kind == IF c.aborted THEN "canceled"
              ELSE IF axiosResolves(response) THEN "ok" ELSE "failed"
  IN
  IF kind = "ok" THEN [u EXCEPT !.suggestions[c.field] = response.data]
  ELSE IF isCanceled(kind) THEN u
  ELSE [u EXCEPT !.suggestions[c.field] = <<>>]

\* what fetchSuggestions shows to the user: its catch block writes to the
\* console (console.error) and calls no toast
suggestionsToast(c, response) == "none"

handleSuggestionClick(u, f, suggestion) ==
  IF Len(suggestion.center) # 2 THEN u
  ELSE [u EXCEPT !.address[f] = PlaceText(suggestion.place_name),
                 !.coords[f] = [set |-> TRUE, at |-> suggestion.center],
                 !.suggestions[f] = <<>>]

clearMapElements(u) == [u EXCEPT !.markers = <<>>, !.layer = NoRouteFeature]

handleReset(u) ==
  [clearMapElements(u) EXCEPT
     !.distance = NoDistance,
     !.address = [f \in Fields |-> <<>>],
     !.coords = [f \in Fields |-> NoCoords],
     !.suggestions = [f \in Fields |-> <<>>],
     !.routeFeature = NoRouteFeature]

\* (mutant) one resolved field is enough
missingBoth(u) == ~u.coords["start"].set /\ ~u.coords["end"].set

\* !startCoords || !endCoords
missingCoords(u) == ~u.coords["start"].set \/ ~u.coords["end"].set

\* handleCalculateRoute up to `await axios.post`
handleCalculateRoute(u) ==
  IF missingCoords(u)
  THEN [ui |-> u, toast |-> "warn", post |-> FALSE, body |-> NoBody]
  ELSE [ui |-> [clearMapElements(u) EXCEPT !.isLoading = TRUE,
                                           !.routeFeature = NoRouteFeature],
        toast |-> "none", post |-> TRUE,
        body |-> [present |-> TRUE, start |-> JsPoint(u.coords["start"]),
                  end |-> JsPoint(u.coords["end"])]]

\* (mutant) isLoading is cleared at the end of the try block only
routeResultNoFinally(u, response, fitThrows) ==
  IF axiosResolves(response) /\ ~fitThrows
  THEN [ui |-> [u EXCEPT !.distance = [set |-> TRUE, v |-> Get(response.data, "distance")],
                         !.routeFeature = [set |-> TRUE,
                                           geometry |-> Get(response.data, "geometry")],
                         !.isLoading = FALSE],
        toast |-> "none"]
  ELSE [ui |-> u, toast |-> "error"]

\* handleCalculateRoute after `await axios.post`: try, catch, finally
routeResult(u, response, fitThrows) ==
  IF axiosResolves(response)
  THEN [ui |-> [u EXCEPT !.distance = [set |-> TRUE, v |-> Get(response.data, "distance")],
                         !.routeFeature = [set |-> TRUE,
                                           geometry |-> Get(response.data, "geometry")],
                         !.isLoading = FALSE],
        toast |-> IF fitThrows THEN "error" ELSE "none"]
  ELSE [ui |-> [u EXCEPT !.isLoading = FALSE], toast |-> "error"]

\* ---------------------------------------------------------------------
\* App: steps
\* ---------------------------------------------------------------------
\* what the user types into a field
EditTexts == {<<"a">>, <<"a", "b">>, <<"a", "b", "c">>}

CallsOf(f) == {c \in reqs.suggestions : c.field = f}

\* The next event can be taken: axios rejects a call when abort() is
\* called on its signal and the rejection is handled, as a microtask,
\* before any later event; and fewer than n calls of each field have yet
\* to settle.
ClientRoom(n) ==
  /\ \A c \in reqs.suggestions : ~c.aborted
  /\ \A f \in Fields : Cardinality(CallsOf(f)) < n

\* a handler has set the state u: render, run the effects, note the step
Commit(kind, f, u, calls, route) ==
  LET r == render(ui, u, calls) IN
  /\ ui' = r.ui
  /\ reqs' = [suggestions |-> r.calls, route |-> route]
  /\ cev' = [NoCev EXCEPT !.kind = kind, !.field = f,
                          !.changed = (r.ui # ui), !.coords = ui.coords,
                          !.issued = Cardinality(r.calls) - Cardinality(calls)]
  /\ UNCHANGED serverVars

\* the user has acted on the fields since Calculate was pressed
Disturbed(route) == {[x EXCEPT !.quiet = FALSE] : x \in route}

\* only one element has the focus
onFocus(f) ==
  /\ \A g \in Fields : ~ui.focused[g]
  /\ Commit("focus", f, [ui EXCEPT !.focused[f] = TRUE], reqs.suggestions, reqs.route)

onBlur(f) ==
  /\ ui.focused[f]
  /\ Commit("blur", f, [ui EXCEPT !.focused[f] = FALSE], reqs.suggestions, reqs.route)

\* onChange without setStartCoords(null)
onChangeKeepsCoords(f, text) ==
  /\ ui.focused[f]
  /\ text # ui.address[f]
  /\ Commit("edit", f, [ui EXCEPT !.address[f] = text],
            {IF c.field = f THEN [c EXCEPT !.stale = TRUE] ELSE c : c \in reqs.suggestions},
            Disturbed(reqs.route))

\* setStartAddress(e.target.value); setStartCoords(null)
onChange(f, text) ==
  /\ ui.focused[f]
  /\ text # ui.address[f]
  /\ Commit("edit", f,
            [ui EXCEPT !.address[f] = text, !.coords[f] = NoCoords],
            {IF c.field = f THEN [c EXCEPT !.stale = TRUE] ELSE c : c \in reqs.suggestions},
            Disturbed(reqs.route))

\* the timeout of useDebounce fires: setDebouncedValue(value)
debounceTimeout(f) ==
  /\ ui.timer[f].on
  /\ Commit("debounce", f,
            [ui EXCEPT !.timer[f] = NoTimer, !.debounced[f] = ui.timer[f].value],
            reqs.suggestions, reqs.route)

\* a suggestion of the list shown under the field is pressed
onMouseDown(f, i) ==
  /\ ui.suggestions[f] # <<>> /\ ui.focused[f]
  /\ i \in 1..Len(ui.suggestions[f])
  /\ Commit("select", f, handleSuggestionClick(ui, f, ui.suggestions[f][i]),
            reqs.suggestions, Disturbed(reqs.route))

\* pressing a button takes the focus from the fields
Reset ==
  /\ \A f \in Fields : ~ui.focused[f]
  /\ ui # InitUi
  /\ Commit("reset", "", handleReset(ui), reqs.suggestions, Disturbed(reqs.route))

\* the Calculate button, disabled while isLoading
Calculate ==
  /\ \A f \in Fields : ~ui.focused[f]
  /\ ~ui.isLoading
  /\ LET h == handleCalculateRoute(ui)
         r == render(ui, h.ui, reqs.suggestions)
     IN /\ ui' = r.ui
        /\ reqs' = [suggestions |-> r.calls,
                    route |-> IF h.post
                              THEN reqs.route
                                   \cup {[body |-> h.body, prior |-> Shown(ui), quiet |-> TRUE]}
                              ELSE reqs.route]
        /\ cev' = [NoCev EXCEPT !.kind = "calculate", !.toast = h.toast,
                                !.changed = (r.ui # ui), !.coords = ui.coords,
                                !.issued = IF h.post THEN 1 ELSE 0,
                                !.prior = Shown(ui)]
  /\ UNCHANGED serverVars

\* a suggestions call settles: resolved, rejected or cancelled
SuggestionsSettle(c, answer) ==
  /\ c \in reqs.suggestions
  /\ LET response == proxySuggestions(c.q, answer)
         u == fetchSuggestions(ui, c, response)
         r == render(ui, u, reqs.suggestions \ {c})
     IN /\ ui' = r.ui
        /\ reqs' = [reqs EXCEPT !.suggestions = r.calls]
        /\ cev' = [NoCev EXCEPT !.kind = "suggestions", !.field = c.field, !.call = c,
                                !.answer = answer, !.status = response.status,
                                !.toast = suggestionsToast(c, response),
                                !.changed = (r.ui # ui), !.coords = ui.coords]
  /\ UNCHANGED serverVars

\* the route call settles; fitBounds may throw
RouteSettle(x, answer, fitThrows) ==
  /\ x \in reqs.route
  /\ LET response == proxyRoute(x.body, answer)
         o == routeResult(ui, response, fitThrows)
         r == render(ui, o.ui, reqs.suggestions)
     IN /\ ui' = r.ui
        /\ reqs' = [suggestions |-> r.calls, route |-> reqs.route \ {x}]
        /\ cev' = [NoCev EXCEPT !.kind = "route", !.answer = answer,
                                !.status = response.status, !.toast = o.toast,
                                !.changed = (r.ui # ui), !.coords = ui.coords, !.prior = x.prior,
                                !.quiet = x.quiet,
                                !.threw = (axiosResolves(response) /\ fitThrows)]
  /\ UNCHANGED serverVars

ClientObserve ==
  /\ cev # NoCev
  /\ cev' = NoCev
  /\ UNCHANGED <<ui, reqs>>
  /\ UNCHANGED serverVars

\* picks among the first suggestions of a list
Picks == 1..MaxPick

\* the two address fields and their suggestions, no route being asked
FieldsNext ==
  \/ \E f \in Fields : cev = NoCev /\ ClientRoom(MaxPending) /\ onFocus(f)
  \/ \E f \in Fields : cev = NoCev /\ ClientRoom(MaxPending) /\ onBlur(f)
  \/ \E f \in Fields, text \in EditTexts :
       cev = NoCev /\ ClientRoom(MaxPending) /\ onChange(f, text)
  \/ \E f \in Fields : cev = NoCev /\ ClientRoom(MaxPending) /\ debounceTimeout(f)
  \/ \E f \in Fields, i \in Picks :
       cev = NoCev /\ ClientRoom(MaxPending) /\ onMouseDown(f, i)
  \/ cev = NoCev /\ ClientRoom(MaxPending) /\ Reset
  \/ \E c \in reqs.suggestions, answer \in SuggestAnswers :
       cev = NoCev /\ SuggestionsSettle(c, answer)
  \/ ClientObserve

FieldsSpec == Init /\ [][FieldsNext]_vars

\* route calculation, each field being typed into once
RouteNext ==
  \/ \E f \in Fields : cev = NoCev /\ ClientRoom(1) /\ onFocus(f)
  \/ \E f \in Fields : cev = NoCev /\ ClientRoom(1) /\ onBlur(f)
  \/ \E f \in Fields :
       cev = NoCev /\ ClientRoom(1) /\ onChange(f, <<"a", "b">>)
  \/ \E f \in Fields : cev = NoCev /\ ClientRoom(1) /\ debounceTimeout(f)
  \/ \E f \in Fields :
       cev = NoCev /\ ClientRoom(1) /\ onMouseDown(f, IF f = "start" THEN 1 ELSE 2)
  \/ cev = NoCev /\ ClientRoom(1) /\ Reset
  \/ cev = NoCev /\ Calculate
  \/ \E c \in reqs.suggestions, answer \in SuggestAnswers :
       cev = NoCev /\ SuggestionsSettle(c, answer)
  \/ \E x \in reqs.route, answer \in RouteAnswers, fitThrows \in BOOLEAN :
       cev = NoCev /\ RouteSettle(x, answer, fitThrows)
  \/ ClientObserve

RouteSpec == Init /\ [][RouteNext]_vars

\* ---------------------------------------------------------------------
\* Properties
\* ---------------------------------------------------------------------
\* a suggestions request the limiter let through to the handler
SuggestArrived ==
  ev.op = "suggestions" /\ ev.phase = "arrive" /\ ev.status # 429

\* ... whose handler looked its key up in the cache
SuggestLookup == SuggestArrived /\ ev.lookups = 1

\* a request's upstream call has settled and the request answered
Settled(op) == ev.op = op /\ ev.phase = "settle"

\* time since the entry was stored (it was stored with exp = then + TTL)
Age(found) == now - (found.exp - SUGGEST_TTL_MS)

\* C1: a suggestions request whose cache key has an entry stored no more
\* than 60 s earlier makes no upstream call and is answered 200 with
\* exactly the stored payload, the empty list included.
C1_HitServesStoredPayload ==
  (SuggestLookup /\ ev.found.present /\ Age(ev.found) <= SUGGEST_TTL_MS)
    => /\ ev.status = 200
       /\ ev.res = ev.found.data
       /\ ev.calls = 0
       /\ ev.upreq = NoUpReq
       /\ ~ev.changed

\* a hit on a stored empty list, exactly 60 s after it was stored
C1_Witness ==
  /\ SuggestLookup /\ ev.found.present
  /\ Age(ev.found) = SUGGEST_TTL_MS
  /\ ev.found.data = <<>>
  /\ ev.status = 200 /\ ev.res = <<>> /\ ev.calls = 0

\* C2: a lookup made after the entry's 60 s have elapsed deletes the entry
\* and reports a miss; the request calls upstream, and a request whose
\* upstream call succeeds stores its payload with expiry 60 s from then.
C2_ExpiredEntryIsAbsent ==
  /\ (SuggestLookup /\ ev.found.present /\ Age(ev.found) > SUGGEST_TTL_MS)
       => /\ ev.key \notin DOMAIN suggestCache
          /\ ev.status = 0
          /\ ev.calls = 1
          /\ ev.upreq.api = "geocoding"
          /\ \E r \in BagToSet(inflight) :
               r.op = "suggestions" /\ r.key = ev.key /\ r.sentAt = now /\ r.evicted
  /\ (Settled("suggestions") /\ ev.status = 200)
       => /\ ev.key \in DOMAIN suggestCache
          /\ suggestCache[ev.key] = [exp |-> now + SUGGEST_TTL_MS, data |-> ev.res]

\* a request found its entry expired, called upstream and stored anew
C2_Witness ==
  /\ Settled("suggestions") /\ ev.evicted /\ ev.status = 200
  /\ suggestCache[ev.key].exp = now + SUGGEST_TTL_MS

\* the query is missing from the body, or a string of trimmed length < 2
QueryMissingOrShort(q) ==
  \/ q.t \in {"undefined", "null"}
  \/ q.t = "string" /\ Len(Trim(q.s)) < 2

UpstreamFailed == ev.phase = "settle" /\ (ev.up.kind # "response" \/ ev.up.status >= 400)

FailureStatus ==
  ev.status = IF ev.up.kind = "response" THEN 502 ELSE 500

FinitePair(p) ==
  /\ p.t = "array"
  /\ Len(p.items) = 2
  /\ \A i \in 1..2 : p.items[i].t = "number"

RouteArrived == ev.op = "route" /\ ev.phase = "arrive"

InvalidRouteBody(b) ==
  ~b.present \/ ~FinitePair(b.start) \/ ~FinitePair(b.end)

\* C6: a route request whose start or end is missing, is not an array of
\* exactly two elements, or has a non-finite or non-numeric element is
\* answered 400 and makes no upstream call.
C6_InvalidPointsRejected ==
  (RouteArrived /\ InvalidRouteBody(ev.body))
    => ev.status = 400 /\ ev.calls = 0 /\ ev.upreq = NoUpReq

\* a start of three numbers is refused
C6_Witness ==
  /\ RouteArrived /\ ev.body.present
  /\ ev.body.start.t = "array" /\ Len(ev.body.start.items) = 3
  /\ FinitePair(ev.body.end)
  /\ ev.status = 400

UpstreamOk == ev.phase = "settle" /\ ev.up.kind = "response" /\ ev.up.status < 400

\* C7: after a successful upstream directions response, no routes (or no
\* routes field) is answered 404, and one or more routes is answered 200
\* with the first route's distance, duration and geometry.
C7_FirstRouteVerbatim ==
  (Settled("route") /\ UpstreamOk)
    => IF ~ev.up.has \/ ev.up.list = <<>>
       THEN ev.status = 404
       ELSE /\ ev.status = 200
            /\ ev.res = [distance |-> ev.up.list[1].distance,
                         duration |-> ev.up.list[1].duration,
                         feature |->
                           [type |-> "Feature",
                            properties |-> [distance |-> ev.up.list[1].distance,
                                            duration |-> ev.up.list[1].duration],
                            geometry |-> ev.up.list[1].geometry]]

\* upstream returned two routes
C7_Witness ==
  /\ Settled("route") /\ UpstreamOk
  /\ Len(ev.up.list) = 2
  /\ ev.status = 200 /\ ev.res.distance = 12345

\* C8: every request makes at most one upstream call; when the call
\* fails the same request answers with the failure.
C8_AtMostOneUpstreamCall ==
  /\ ev.calls <= 1
  /\ ev.phase # "retry"
  /\ \A r \in BagToSet(inflight) : r.calls = 1
  /\ UpstreamFailed => ev.status \in {500, 502}
  /\ ev.phase = "settle" => ev.status # 0

\* a timed-out call is answered at once
C8_Witness ==
  /\ ev.phase = "settle" /\ ev.up.kind = "timeout"
  /\ ev.status = 500 /\ ev.calls = 1

\* C9 as claimed: every successful suggestions response has at most 7
\* elements, whatever upstream returned, and they are the upstream
\* features reduced to {id, place_name, center} in upstream order.
C9_AtMostSeven ==
  /\ (ev.op = "suggestions" /\ ev.status = 200) => Len(ev.res) <= SUGGEST_LIMIT
  /\ (Settled("suggestions") /\ ev.status = 200)
       => \A i \in 1..Len(ev.res) :
            ev.res[i] = [id |-> ev.up.list[i].id,
                         place_name |-> ev.up.list[i].place_name,
                         center |-> ev.up.list[i].center]

\* location is absent or is not a non-empty string
InvalidLocation(b) ==
  ~b.present \/ b.location.t # "string" \/ b.location.s = <<>>

\* C10 as claimed: a geocode request whose location is absent or not a
\* non-empty string, and a route request whose start or end is not a
\* finite [lon, lat] pair, get a 4xx response and make no upstream call.
C10_InvalidInputIs4xx ==
  /\ (ev.op = "geocode" /\ ev.phase = "arrive" /\ InvalidLocation(ev.body))
       => ev.status \in 400..499 /\ ev.calls = 0
  /\ (RouteArrived /\ InvalidRouteBody(ev.body))
       => ev.status \in 400..499 /\ ev.calls = 0


\* a suggestions request has just come in from ip
ArrivesFrom(ip) ==
  ev = NoEv /\ ev'.op = "suggestions" /\ ev'.phase = "arrive" /\ ev'.ip = ip

\* the request just counted is in an open window of 10 s, and it is
\* rejected exactly when it is beyond the 30th of that window
C3_CountDecides ==
  (ev.op = "suggestions" /\ ev.phase = "arrive")
    => LET w == hits[ev.ip] IN
       /\ w.totalHits >= 1
       /\ now < w.resetTime /\ w.resetTime <= now + RATE_WINDOW_MS
       /\ (ev.status = 429) <=> (w.totalHits > RATE_MAX)
       /\ ev.status = 429 => ev.calls = 0 /\ ev.lookups = 0

\* a request is counted in its address's open window, or opens a fresh
\* window with count 1 once the previous one is over; it never touches
\* the count of another address
C3_CountsPerAddress ==
  \A ip \in Ips :
    IF ArrivesFrom(ip)
    THEN IF now < hits[ip].resetTime
         THEN hits'[ip] = [hits[ip] EXCEPT !.totalHits = @ + 1]
         ELSE hits'[ip] = [totalHits |-> 1, resetTime |-> now + RATE_WINDOW_MS]
    ELSE now' = now => hits'[ip] = hits[ip]

\* C3: per client address at most 30 suggestions requests are admitted in
\* one 10 s window: the 31st is rejected with 429; once the window is
\* over the address is admitted again with a fresh count; the count of
\* one address never affects another.
C3_ThirtyPerWindow == []C3_CountDecides /\ [][C3_CountsPerAddress]_vars

\* the 31st request of one address is rejected while the other address
\* is within its budget
C3_Witness ==
  /\ ev.op = "suggestions" /\ ev.phase = "arrive" /\ ev.status = 429
  /\ hits[ev.ip].totalHits = RATE_MAX + 1
  /\ \E ip \in Ips \ {ev.ip} : hits[ip].totalHits \in 1..RATE_MAX /\ now < hits[ip].resetTime

\* ---------------------------------------------------------------------
\* Geocode
\* ---------------------------------------------------------------------
GeocodeArrived == ev.op = "geocode" /\ ev.phase = "arrive"

\* location is missing, the empty string, or only whitespace
BlankLocation(b) ==
  \/ ~b.present
  \/ b.location = Undef
  \/ b.location.t = "string" /\ \A i \in 1..Len(b.location.s) : b.location.s[i] \in Whitespace

\* C11: a geocode request whose location is missing, empty or only
\* whitespace is answered 400 with an error message, and no upstream
\* call is made for it.
C11_BlankLocationRejected ==
  (GeocodeArrived /\ BlankLocation(ev.body))
    => /\ ev.status = 400 /\ ev.res = ErrorBody
       /\ ev.calls = 0 /\ ev.upreq = NoUpReq

\* a location of two spaces is rejected
C11_Witness ==
  /\ GeocodeArrived
  /\ ev.body.present /\ ev.body.location = Str(<<" ", " ">>)
  /\ ev.status = 400

\* C12: after a successful upstream geocoding response, zero features (or
\* no features field) is answered 404, and one or more features is
\* answered 200 with {coordinates} equal to the first feature's center.
C12_FirstCenterOrNotFound ==
  (Settled("geocode") /\ UpstreamOk)
    => IF ~ev.up.has \/ ev.up.list = <<>>
       THEN ev.status = 404 /\ ev.res = ErrorBody
       ELSE ev.status = 200 /\ ev.res = [coordinates |-> ev.up.list[1].center]

\* upstream returned several features; the first one's center is answered
C12_Witness ==
  /\ Settled("geocode") /\ UpstreamOk
  /\ Len(ev.up.list) > 1
  /\ ev.status = 200 /\ ev.res.coordinates = Feature(1).center

\* ---------------------------------------------------------------------
\* App: suggestions
\* ---------------------------------------------------------------------
\* the calls of field f whose signal has not been aborted
LiveCalls(f) == {c \in CallsOf(f) : ~c.aborted}

\* a suggestions call has just settled
CallSettled == cev.kind = "suggestions"

\* ... not cancelled, so that its result or failure was put in the list
CallApplied == CallSettled /\ ~cev.call.aborted

\* C13: each field has at most one suggestions call that is pending and
\* not cancelled, it is the call of the field's current controller, and
\* only that call's outcome reaches the state: when a call is issued every
\* earlier call of the field has been aborted.
C13_OneLiveCallPerField ==
  /\ \A f \in Fields :
       /\ Cardinality(LiveCalls(f)) <= 1
       /\ \A c \in LiveCalls(f) : c.id = ui.controller[f]
  /\ cev.issued <= 1
  /\ (CallSettled /\ cev.changed) => ~cev.call.aborted

\* a field has its cancelled call and the call that superseded it pending
C13_Witness ==
  \E f \in Fields :
    /\ Cardinality(CallsOf(f)) = 2
    /\ Cardinality(LiveCalls(f)) = 1
    /\ \E c \in CallsOf(f), d \in LiveCalls(f) : c.aborted /\ c.q # d.q

\* C14: the settlement of a call whose signal was aborted changes nothing
\* of the client's state, whatever the proxy answered.
C14_CancelledCallChangesNothing ==
  (CallSettled /\ cev.call.aborted) => ~cev.changed

\* a cancelled call settles while its field shows a list that a failure
\* would have cleared
C14_Witness ==
  /\ CallSettled /\ cev.call.aborted
  /\ ui.suggestions[cev.field] # <<>>

\* C15 as claimed: a call that was pending when its field's text was
\* edited has been cancelled by the time it settles, so that its outcome
\* is not put in the suggestion list after the edit.
C15_EditCancelsPendingCall ==
  (CallSettled /\ cev.call.stale) => (cev.call.aborted /\ ~cev.changed)

\* the field's coordinates are set: a suggestion was selected and the text
\* has not been edited (nor the form reset) since
Resolved(f) == ui.coords[f].set

\* C16: a selection records the suggestion's coordinates and empties the
\* field's list; while the coordinates are set the list is empty, no call
\* of the field is pending uncancelled and no step issues one.
C16_SelectionSuppressesFetching ==
  /\ cev.kind = "select"
       => /\ Resolved(cev.field)
          /\ \E i \in 1..MaxFeatures :
               /\ ui.coords[cev.field].at = Feature(i).center
               /\ ui.address[cev.field] = PlaceText(Feature(i).place_name)
  /\ \A f \in Fields :
       Resolved(f) => /\ ui.suggestions[f] = <<>>
                      /\ LiveCalls(f) = {}
  /\ (cev.field # "" /\ Resolved(cev.field)) => cev.issued = 0

\* the debounced text has caught up with the selected place name while
\* the field still has the focus
C16_Witness ==
  \E f \in Fields :
    /\ cev.kind = "debounce" /\ cev.field = f
    /\ Resolved(f) /\ ui.focused[f]
    /\ ui.debounced[f] = ui.address[f] /\ Len(ui.debounced[f]) >= CLIENT_MIN_QUERY_LEN

\* ---------------------------------------------------------------------
\* App: route calculation
\* ---------------------------------------------------------------------
\* the route call has just settled
RouteSettled == cev.kind = "route"

\* ... with a 2xx answer whose result was applied without an exception
RouteSucceeded == RouteSettled /\ cev.status \in 200..299 /\ ~cev.threw

RouteFailed == RouteSettled /\ ~RouteSucceeded

\* C17 as claimed: after a failed route call, the user not having touched
\* the fields meanwhile, the failure notification is shown and markers,
\* route layer, routeFeature and distance are what they were before
\* Calculate was pressed.
C17_FailureLeavesMapUntouched ==
  (RouteFailed /\ cev.quiet)
    => /\ cev.toast = "error"
       /\ Shown(ui) = cev.prior

\* C18 as claimed: after a successful route call routeFeature holds the
\* geometry of the first upstream route and distance is that route's
\* distance.
C18_ClientReadsWhatProxyWrites ==
  RouteSucceeded
    => /\ ui.distance = [set |-> TRUE, v |-> cev.answer.up.list[1].distance]
       /\ ui.routeFeature.set
       /\ ui.routeFeature.geometry = cev.answer.up.list[1].geometry

\* the route call settles within its timeout of 10 s
RouteSettles ==
  \E x \in reqs.route, answer \in RouteAnswers, fitThrows \in BOOLEAN :
    RouteSettle(x, answer, fitThrows)

RouteLiveSpec == RouteSpec /\ WF_vars(RouteSettles)

\* isLoading is true only while the route call is pending, it is false
\* once the call has settled, and a refused calculation does not set it
LoadingOnlyWhilePending ==
  /\ ui.isLoading => reqs.route # {}
  /\ RouteSettled => ~ui.isLoading
  /\ (cev.kind = "calculate" /\ cev.issued = 0) => ~ui.isLoading

\* C19: every calculation that sets isLoading sets it back to false,
\* whether the call succeeds, fails, times out or the result cannot be
\* applied; a refused calculation never sets it.
C19_LoadingAlwaysCleared ==
  /\ []LoadingOnlyWhilePending
  /\ (ui.isLoading ~> ~ui.isLoading)

\* the call succeeded, applying its result threw, and isLoading is false
C19_Witness ==
  /\ RouteSettled /\ cev.threw
  /\ cev.toast = "error"
  /\ ~ui.isLoading

\* C20: Calculate with the start or the end coordinates missing shows the
\* warning, posts nothing, and leaves isLoading, markers, route layer,
\* routeFeature and distance as they were.
C20_MissingCoordsRefused ==
  (cev.kind = "calculate" /\ (~ui.coords["start"].set \/ ~ui.coords["end"].set))
    => /\ cev.toast = "warn"
       /\ cev.issued = 0 /\ reqs.route = {}
       /\ ~ui.isLoading
       /\ ~cev.changed
       /\ Shown(ui) = cev.prior

\* Calculate is refused with only the start resolved and its marker drawn
C20_Witness ==
  /\ cev.kind = "calculate" /\ cev.toast = "warn"
  /\ ui.coords["start"].set /\ ~ui.coords["end"].set
  /\ ui.markers # <<>>


\* the centers a listed suggestion can carry: pairs [lng, lat]
Centers == {Feature(i).center : i \in 1..MaxFeatures}

\* the coordinates of the field differ from what they were before the step
CoordsChanged(f) == cev.kind # "none" /\ ui.coords[f] # cev.coords[f]

\* C21: the coordinates of a field are set only by the selection of a
\* suggestion of that field, to the two-element center of the suggestion;
\* every text edit leaves the coordinates of the edited field null, and no
\* other step of the client (focus, blur, debounce, reset, calculate, a
\* settled call) turns coordinates into a non-null value.
C21_CoordsOnlyFromSelection ==
  /\ cev.kind = "edit" => ~Resolved(cev.field)
  /\ \A f \in Fields :
       (CoordsChanged(f) /\ Resolved(f)) =>
         /\ cev.kind = "select" /\ cev.field = f
         /\ ui.coords[f].at \in Centers /\ Len(ui.coords[f].at) = 2

\* an edit of a field whose coordinates had been set by a selection
C21_Witness ==
  /\ cev.kind = "edit" /\ cev.coords[cev.field].set
  /\ cev.coords[cev.field].at \in Centers
  /\ ~Resolved(cev.field)


\* a step of the fields has issued a suggestions call
CallIssued == cev.kind \notin {"none", "calculate"} /\ cev.issued > 0

\* the call issued by the step: the one of the field's current controller
IssuedCall == CHOOSE c \in reqs.suggestions :
                c.field = cev.field /\ c.id = ui.controller[cev.field]

\* C22 as claimed: a suggestions call is issued for a field only when the
\* debounce interval has elapsed with no further edit (no edit of the field
\* is waiting for its debounce), the debounced text has trimmed length of
\* at least 2, the field has the focus and its coordinates are null.
C22_IssuedOnlyAfterQuietInterval ==
  CallIssued =>
    /\ cev.field \in Fields
    /\ ~ui.timer[cev.field].on
    /\ ui.debounced[cev.field] = ui.address[cev.field]
    /\ Len(Trim(ui.debounced[cev.field])) >= CLIENT_MIN_QUERY_LEN
    /\ ui.focused[cev.field]
    /\ ~Resolved(cev.field)

\* what the effect guarantees: the call carries the trimmed debounced text
IssuedForDebouncedText ==
  CallIssued =>
    /\ cev.field \in Fields
    /\ \E c \in LiveCalls(cev.field) : c = IssuedCall /\ c.q = Trim(ui.debounced[cev.field])
    /\ Len(Trim(ui.debounced[cev.field])) >= CLIENT_MIN_QUERY_LEN
    /\ ui.focused[cev.field]
    /\ ~Resolved(cev.field)


\* a suggestions call has failed: timeout, or an answer that is not 2xx
CallFailed == CallApplied /\ ~(cev.status \in 200..299)

\* C23 as claimed: every failure of a call that was not cancelled shows one
\* notification of its operation: a failed suggestions call shows the
\* "suggestions unavailable" notification, a failed route call the "route
\* computation failed" notification.
C23_EveryFailureNotified ==
  /\ CallFailed => cev.toast = "error"
  /\ RouteFailed => cev.toast = "error"

\* the half that holds: a failed route call shows the error notification
RouteFailureNotified == RouteFailed => cev.toast = "error"


\* the form is as Reset leaves it: both texts empty, no coordinates
FormCleared == \A f \in Fields : ui.address[f] = <<>> /\ ~Resolved(f)

\* the route call that has just settled was overtaken by a Reset
SettledAfterReset == RouteSettled /\ ~cev.quiet /\ FormCleared

\* C29 as claimed: the answer of a route call that arrives after the form
\* was reset while the call was pending does not overwrite the newer
\* state: distance and routeFeature are still null and no route is drawn.
C29_LateAnswerDiscarded ==
  SettledAfterReset =>
    /\ ~ui.distance.set
    /\ ~ui.routeFeature.set
    /\ ~ui.layer.set


\* ---------------------------------------------------------------------
\* The cache under concurrent suggestions requests for two keys
\* ---------------------------------------------------------------------
\* requests for one key allowed to wait for upstream at the same time
MaxStampede == 2

\* a valid proximity that rounds to another key than the default's
Elsewhere == Arr(<<Num(-39800), Num(53500)>>)

CacheBodies ==
  {[present |-> TRUE, query |-> q, proximity |-> p] :
     q \in LongQueries,
     p \in {Undef, NearDefault, Arr(<<Infinity, Num(53500)>>), Elsewhere}}

\* the clock's jumps: a short one while a call is awaited, and long ones
\* between calls, two of which outlast an entry stored at the start
CacheSteps == {RATE_WINDOW_MS \div 2, MaxTime \div 2}

CacheNext ==
  \/ \E body \in CacheBodies :
       /\ ev = NoEv /\ Below(Client, MaxBurst) /\ Room(MaxStampede)
       /\ Suggestions(Client, body)
       /\ UNCHANGED clientVars
  \/ \E r \in BagToSet(inflight), up \in UpGeocoding :
       ev = NoEv /\ SettleSuggestions(r, up) /\ UNCHANGED clientVars
  \/ \E d \in CacheSteps :
       /\ ev = NoEv
       /\ (inflight = EmptyBag) <=> (d > SUGGEST_TIMEOUT_MS)
       /\ inflight # EmptyBag => now % (MaxTime \div 2) = 0
       /\ Advance(d)
       /\ UNCHANGED clientVars
  \/ Observe /\ UNCHANGED clientVars

CacheSpec == Init /\ [][CacheNext]_vars


\* ---------------------------------------------------------------------
\* Properties of the cache under concurrent requests (CacheSpec)
\* ---------------------------------------------------------------------
\* "ab|-4.008,5.310": the text "ab" near the default reference point
DefaultKey == <<<<"a", "b">>, <<"-", 4008>>, <<"", 5310>>>>

\* "ab|-3.980,5.350": the text "ab" near the other point
ElsewhereKey == <<<<"a", "b">>, <<"-", 3980>>, <<"", 5350>>>>

\* the request's lookup found an entry that has not expired
FreshHit == SuggestLookup /\ ev.found.present /\ Age(ev.found) <= SUGGEST_TTL_MS

\* C24: the key of a request is its trimmed, lower-cased text with the
\* effective proximity rounded to 3 decimals, the default reference point
\* standing in for an absent or invalid proximity: "ab" and " Ab ", with
\* no proximity, a non-finite one or one that rounds like the default,
\* all look up one entry, and within the TTL each is answered with the
\* payload stored under it; only a valid proximity that rounds
\* differently has another entry.
C24_NormalisedKeyShared ==
  /\ SuggestLookup
       => ev.key = IF ev.body.proximity = Elsewhere THEN ElsewhereKey ELSE DefaultKey
  /\ DOMAIN suggestCache \subseteq {DefaultKey, ElsewhereKey}
  /\ FreshHit
       => /\ ev.status = 200 /\ ev.calls = 0
          /\ ev.res = ev.found.data
          /\ ev.key \in DOMAIN suggestCache /\ suggestCache[ev.key].data = ev.res

\* " Ab " with a non-finite proximity is answered from the entry of "ab"
C24_Witness ==
  /\ FreshHit
  /\ ev.body.query = Str(<<" ", "A", "b", " ">>)
  /\ ~validPair(ev.body.proximity) /\ ev.body.proximity # Undef
  /\ ev.key = DefaultKey
  /\ ev.res # <<>>


\* requests awaiting upstream for the key of the step just taken
PendingForKey ==
  BagCardinality([r \in {x \in BagToSet(inflight) : x.key = ev.key} |->
                    CopiesIn(r, inflight)])

\* the lookup missed: no entry, or one that had expired
Missed == SuggestLookup /\ ~FreshHit

\* every entry of another key than the step's is as it was before the step
OtherKeysUntouched ==
  \A k \in DOMAIN suggestCache :
    k # ev'.key => k \in DOMAIN suggestCache' /\ suggestCache'[k] = suggestCache[k]

\* C25: requests for one key are not deduplicated. A lookup that misses
\* makes its own upstream call also when a call for the same key is
\* already awaited; every successful completion sets the key's entry to
\* its own payload with expiry 60 s after the completion, whatever was
\* stored meanwhile; and no request changes the entry of another key.
C25_NoDeduplication ==
  /\ [](Missed => ev.status = 0 /\ ev.calls = 1 /\ PendingForKey >= 1)
  /\ []((Settled("suggestions") /\ ev.status = 200)
          => /\ ev.key \in DOMAIN suggestCache
             /\ suggestCache[ev.key] = [exp |-> now + SUGGEST_TTL_MS, data |-> ev.res])
  /\ [][OtherKeysUntouched]_vars

\* a second call for a key goes upstream while the first is still awaited
C25_Witness ==
  /\ Missed /\ ev.calls = 1
  /\ PendingForKey = 2

\* the later of two completions for one key has replaced the earlier's
\* payload, after the clock moved
EntryOverwritten ==
  /\ Settled("suggestions") /\ ev.status = 200 /\ ev.res = <<>>
  /\ ev.changed
  /\ now = RATE_WINDOW_MS \div 2
  /\ hits[Client].totalHits = 2
  /\ DOMAIN suggestCache = {ev.key}


\* the step just taken (primed) is a lookup of key k
LookedUp(k) ==
  ev'.op = "suggestions" /\ ev'.phase = "arrive" /\ ev'.lookups = 1 /\ ev'.key = k

\* the step just taken (primed) is a successful completion for key k
Stored(k) ==
  ev'.op = "suggestions" /\ ev'.phase = "settle" /\ ev'.status = 200 /\ ev'.key = k

\* C26: expiry is enforced at read time only. An entry leaves the cache
\* only in a lookup of its own key made after its expiry, and changes
\* only when a successful completion for its key stores over it; the
\* passing of time, steps for other keys and failed completions leave it
\* as it is, so an expired entry that is not looked up stays resident.
C26_ExpiryOnlyAtRead ==
  [][\A k \in DOMAIN suggestCache :
       /\ k \notin DOMAIN suggestCache'
            => LookedUp(k) /\ now > suggestCache[k].exp
       /\ (k \in DOMAIN suggestCache' /\ suggestCache'[k] # suggestCache[k])
            => Stored(k)]_vars

\* an entry that expired is still resident after a request for the other
\* key was served and stored
C26_Witness ==
  /\ Settled("suggestions") /\ ev.status = 200
  /\ Cardinality(DOMAIN suggestCache) = 2
  /\ \E k \in DOMAIN suggestCache : k # ev.key /\ now > suggestCache[k].exp


\* ---------------------------------------------------------------------
\* The limiter's budget among the proxy's other routes
\* ---------------------------------------------------------------------
\* a query too short for the cache, and one that is looked up
BudgetBodies ==
  {[present |-> TRUE, query |-> q, proximity |-> Undef] :
     q \in {Str(<<"a">>), Str(<<"a", "b">>)}}

BudgetGeocodeBodies ==
  {[present |-> TRUE, location |-> l] : l \in {Str(<<>>), Str(<<" ", "a", "b">>)}}

BudgetRouteBodies ==
  {[present |-> TRUE, start |-> p, end |-> PointB] : p \in {Undef, PointA}}

\* what upstream answers in this scenario
BudgetUps(all) == {up \in all : up.kind = "timeout" \/ (up.kind = "response" /\ up.has)}

BudgetNext ==
  \/ \E body \in BudgetBodies :
       /\ ev = NoEv /\ Below(Client, MaxHits) /\ Room(MaxInFlight)
       /\ Suggestions(Client, body)
       /\ UNCHANGED clientVars
  \/ \E body \in BudgetGeocodeBodies :
       ev = NoEv /\ Room(MaxInFlight) /\ Geocode(body) /\ UNCHANGED clientVars
  \/ \E body \in BudgetRouteBodies :
       ev = NoEv /\ Room(MaxInFlight) /\ Route(body) /\ UNCHANGED clientVars
  \/ ev = NoEv /\ Health /\ UNCHANGED clientVars
  \/ \E r \in BagToSet(inflight), up \in BudgetUps(UpGeocoding) :
       ev = NoEv /\ SettleSuggestions(r, up) /\ UNCHANGED clientVars
  \/ \E r \in BagToSet(inflight), up \in BudgetUps(UpGeocoding) :
       ev = NoEv /\ SettleGeocode(r, up) /\ UNCHANGED clientVars
  \/ \E r \in BagToSet(inflight), up \in BudgetUps(UpDirections) :
       ev = NoEv /\ SettleRoute(r, up) /\ UNCHANGED clientVars
  \/ /\ ev = NoEv /\ now < 2 * RATE_WINDOW_MS
     /\ Advance(RATE_WINDOW_MS \div 2)
     /\ UNCHANGED clientVars
  \/ Observe /\ UNCHANGED clientVars

BudgetSpec == Init /\ [][BudgetNext]_vars


\* ---------------------------------------------------------------------
\* Properties of the limiter's budget (BudgetSpec)
\* ---------------------------------------------------------------------
\* the routes that are not /api/suggestions
OtherRoutes == {"geocode", "route", "health"}

\* the client address has used up the budget of its open window
BudgetSpent(ip) == hits[ip].totalHits >= RATE_MAX /\ now < hits[ip].resetTime

\* C27: geocode, route and health requests leave the shared state alone:
\* none of their steps, arrival or completion, looks a key up, changes the
\* suggestion cache or the limiter's counts, and none is answered 429,
\* also when the address's budget is spent and the cache holds entries.
C27_OnlySuggestionsShares ==
  /\ [](ev.op \in OtherRoutes
          => /\ ev.status # 429
             /\ ev.lookups = 0 /\ ev.found = NoFound /\ ev.key = NoKey
             /\ ~ev.changed /\ ~ev.evicted)
  /\ [][ev'.op \in OtherRoutes => suggestCache' = suggestCache /\ hits' = hits]_vars

\* a geocode request goes upstream while the address's suggestions are
\* being rejected and the cache holds an entry
C27_Witness ==
  /\ GeocodeArrived /\ ev.calls = 1 /\ ev.status = 0
  /\ hits[Client].totalHits > RATE_MAX /\ now < hits[Client].resetTime
  /\ suggestCache # <<>>

\* a suggestions request has just been counted (primed state)
Counted == ev = NoEv /\ ev'.op = "suggestions" /\ ev'.phase = "arrive"

\* C28: the limiter runs before the suggestions handler. Every POST
\* /api/suggestions adds one to its address's count, also when it is
\* answered from the cache or with the empty list of a too-short query;
\* the request is rejected exactly when its count exceeds 30, and a
\* rejected request looks nothing up, changes no cache entry and sends
\* nothing upstream.
C28_LimiterBeforeHandler ==
  /\ [](ev.status = 429
          => /\ ev.op = "suggestions" /\ ev.phase = "arrive"
             /\ hits[ev.ip].totalHits > RATE_MAX
             /\ ev.lookups = 0 /\ ev.found = NoFound
             /\ ~ev.changed
             /\ ev.calls = 0 /\ ev.upreq = NoUpReq)
  /\ []((SuggestArrived /\ ev.calls = 0) => hits[ev.ip].totalHits \in 1..RATE_MAX)
  /\ [][Counted
          => /\ hits'[ev'.ip].totalHits =
                  IF now < hits[ev'.ip].resetTime THEN hits[ev'.ip].totalHits + 1 ELSE 1
             /\ ev'.status = 429 => suggestCache' = suggestCache /\ inflight' = inflight]_vars

\* the 30th request of a window is answered from the cache: it was
\* counted, and the next one will be rejected
C28_Witness ==
  /\ FreshHit /\ ev.status = 200 /\ ev.calls = 0
  /\ hits[ev.ip].totalHits = RATE_MAX

\* a request whose key has a fresh entry is rejected without a lookup
RejectedDespiteEntry ==
  /\ ev.status = 429 /\ ev.body.query = Str(<<"a", "b">>)
  /\ DefaultKey \in DOMAIN suggestCache /\ now <= suggestCache[DefaultKey].exp


\* ---------------------------------------------------------------------
\* Every request is answered (AnswerSpec)
\* ---------------------------------------------------------------------
\* an upstream call returns, fails, or is cut off by its axios timeout
SuggestionsSettles ==
  \E r \in BagToSet(inflight), up \in UpGeocoding :
    SettleSuggestions(r, up) /\ UNCHANGED clientVars

GeocodeSettles ==
  \E r \in BagToSet(inflight), up \in UpGeocoding :
    SettleGeocode(r, up) /\ UNCHANGED clientVars

DirectionsSettles ==
  \E r \in BagToSet(inflight), up \in UpDirections :
    SettleRoute(r, up) /\ UNCHANGED clientVars

\* one request of each way through a handler: no body, a value that fails
\* validation, and one that goes upstream (or is answered from the cache)
AnswerSuggestBodies == {NoBody} \cup BudgetBodies

AnswerGeocodeBodies == {NoBody} \cup BudgetGeocodeBodies

AnswerRouteBodies == {NoBody} \cup BudgetRouteBodies

AnswerNext ==
  \/ \E body \in AnswerSuggestBodies :
       /\ ev = NoEv /\ Below(Client, MaxBurst) /\ Room(MaxInFlight)
       /\ Suggestions(Client, body)
       /\ UNCHANGED clientVars
  \/ \E body \in AnswerGeocodeBodies :
       ev = NoEv /\ Room(MaxInFlight) /\ Geocode(body) /\ UNCHANGED clientVars
  \/ \E body \in AnswerRouteBodies :
       ev = NoEv /\ Room(MaxInFlight) /\ Route(body) /\ UNCHANGED clientVars
  \/ ev = NoEv /\ SuggestionsSettles
  \/ ev = NoEv /\ GeocodeSettles
  \/ ev = NoEv /\ DirectionsSettles
  \/ /\ ev = NoEv /\ now < 2 * RATE_WINDOW_MS
     /\ Advance(RATE_WINDOW_MS \div 2)
     /\ UNCHANGED clientVars
  \/ Observe /\ UNCHANGED clientVars

AnswerSpec ==
  /\ Init /\ [][AnswerNext]_vars
  /\ WF_vars(SuggestionsSettles)
  /\ WF_vars(GeocodeSettles)
  /\ WF_vars(DirectionsSettles)

ProxyOps == {"suggestions", "geocode", "route"}

\* a request of the operation awaits its upstream call
Awaiting(op) == \E r \in BagToSet(inflight) : r.op = op

\* a step of a handler sends one response or none: a request is answered
\* on arrival exactly when it makes no upstream call, and the completion
\* of its call answers it
OneResponseSent ==
  /\ (ev.phase = "arrive" /\ ev.op \in ProxyOps)
       => /\ ev.calls \in {0, 1}
          /\ (ev.status # 0) <=> (ev.calls = 0)
  /\ ev.phase = "settle" => ev.status # 0 /\ ev.calls = 1
  /\ ev.phase \in {"none", "arrive", "settle"}

\* a request awaits upstream only while it is unanswered: it joins the
\* awaited ones on arrival if it was not answered, and leaves them with
\* its answer
AnsweredOnce ==
  /\ ev'.phase = "arrive"
       => BagCardinality(inflight') = BagCardinality(inflight) + ev'.calls
  /\ ev'.phase = "settle"
       => BagCardinality(inflight') = BagCardinality(inflight) - 1
  /\ ev'.phase = "none" => inflight' = inflight

\* C30: every request that reaches a handler of the proxy gets exactly
\* one response: on arrival when validation fails or the cache answers,
\* otherwise when its single upstream call has succeeded, failed or timed
\* out; and, upstream calls returning or timing out, every awaiting
\* request is eventually answered.
C30_ExactlyOneResponse ==
  /\ []OneResponseSent
  /\ [][AnsweredOnce]_vars
  /\ \A op \in ProxyOps : Awaiting(op) ~> Settled(op)

\* a suggestions request is answered after its upstream call timed out
C30_Witness ==
  /\ Settled("suggestions") /\ ev.up.kind = "timeout"
  /\ ev.status = 500
  /\ inflight = EmptyBag

====
